---------------------------- MODULE Spec2Model ----------------------------
(***************************************************************************)
(* Model of the async-ia service: FileProcessorService.process_files       *)
(* (src/src/services/file_processor.py) and AIService.generate_completion  *)
(* (src/src/services/ai_service.py).                                       *)
(*                                                                         *)
(* Representation.  A filename is a sequence of one-character strings.     *)
(* File content is a sequence of byte values 0..255; Python text is a      *)
(* sequence of code points.  The value Block is one extra symbol that      *)
(* stands for a run of BlockLen bytes 0x61 ("a"), so that contents at and  *)
(* above the real size limit of 10 MiB can be written down.  Message       *)
(* strings (exception details) are sequences of string pieces.             *)
(***************************************************************************)
EXTENDS Integers, Sequences, FiniteSets, TLC

VARIABLES
    files,      \* the argument of process_files: sequence of UploadFile
    pf_pc,      \* position of process_files: idle, gather, returned, raised
    tasks,      \* the per-file coroutines handed to asyncio.gather
    order,      \* indices of the tasks in the order in which they finished
    pf_ret,     \* the tuple process_files returned
    pf_exc,     \* the exception process_files raised
    ever_read,  \* indices of the files whose read() was ever called
    ever_temp,  \* indices of the tasks that ever created a temporary file
    client,     \* AIService.client after construction: "AsyncOpenAI" or "None"
    ai_pc,      \* position of generate_completion: idle, awaiting, returned, raised
    ai_args,    \* the arguments of the current generate_completion call
    ai_sent,    \* the content of the user message sent upstream by this call
    ai_requests,\* upstream requests issued by the current call
    ai_reply,   \* what the upstream request of the current call produced
    ai_ret,     \* the value generate_completion returned
    ai_exc,     \* the exception generate_completion raised
    rt_pc,      \* position of process_prompt: idle, files, completion, returned, raised
    rt_args,    \* the form fields of the request: prompt and output_format
    rt_data,    \* request_data, the validated PromptRequest
    rt_resp,    \* the PromptResponse process_prompt returned
    rt_exc      \* the exception process_prompt raised

fp_vars == <<files, pf_pc, tasks, order, pf_ret, pf_exc, ever_read, ever_temp>>

ai_vars == <<client, ai_pc, ai_args, ai_sent, ai_requests, ai_reply, ai_ret, ai_exc>>

rt_vars == <<rt_pc, rt_args, rt_data, rt_resp, rt_exc>>

vars == <<files, pf_pc, tasks, order, pf_ret, pf_exc, ever_read, ever_temp,
          client, ai_pc, ai_args, ai_sent, ai_requests, ai_reply, ai_ret, ai_exc,
          rt_pc, rt_args, rt_data, rt_resp, rt_exc>>

---------------------------------------------------------------------------
(* Bounds of the model *)

MaxFiles == 2

\* longest upstream message content enumerated exhaustively
MaxContentLen == 5

---------------------------------------------------------------------------
(* Configuration: src/src/core/config.py *)

max_file_size_mb == 10

max_file_size_bytes == max_file_size_mb * 1024 * 1024

allowed_extensions ==
    { <<"t","x","t">>, <<"c","s","v">>, <<"j","s","o","n">>, <<"m","d">>,
      <<"p","y">>, <<"j","s">>, <<"t","s">>, <<"h","t","m","l">>,
      <<"x","m","l">>, <<"p","d","f">>, <<"x","l","s","x">>,
      <<"d","o","c","x">>, <<"o","d","t">> }

---------------------------------------------------------------------------
(* Strings *)

Upper == <<"A","B","C","D","E","F","G","H","I","J","K","L","M",
           "N","O","P","Q","R","S","T","U","V","W","X","Y","Z">>
Lower == <<"a","b","c","d","e","f","g","h","i","j","k","l","m",
           "n","o","p","q","r","s","t","u","v","w","x","y","z">>

\* str.lower() on one character
lower_char(c) ==
    IF \E k \in 1..Len(Upper) : Upper[k] = c
    THEN Lower[CHOOSE k \in 1..Len(Upper) : Upper[k] = c]
    ELSE c

\* str.lower()
lower(s) == [k \in 1..Len(s) |-> lower_char(s[k])]

\* str.rfind('.'), 1-based; 0 when there is no dot
rfind_dot(s) ==
    IF \E k \in 1..Len(s) : s[k] = "."
    THEN CHOOSE k \in 1..Len(s) :
            s[k] = "." /\ \A j \in (k+1)..Len(s) : s[j] # "."
    ELSE 0

\* PurePath.suffix of a name without path separators: the part from the
\* last dot on, when that dot is neither the first nor the last character
suffix(name) ==
    LET i == rfind_dot(name)
    IN  IF 1 < i /\ i < Len(name) THEN SubSeq(name, i, Len(name)) ELSE <<>>

RECURSIVE lstrip_dot(_)
\* str.lstrip('.')
lstrip_dot(s) ==
    IF s # <<>> /\ Head(s) = "." THEN lstrip_dot(Tail(s)) ELSE s

\* Path(file.filename).suffix.lower().lstrip('.')
file_extension(filename) == lstrip_dot(lower(suffix(filename)))

---------------------------------------------------------------------------
(* Bytes and text *)

\* the first value above the byte range
Block == 255 + 1
BlockLen == max_file_size_bytes - 1

\* the next value: a run of between 1 and BlockLen - 1 bytes "a", the part
\* of a block that a write which stopped or failed partway left in a file
Part == Block + 1

RECURSIVE len_bytes(_)
\* len(content) of a bytes value
len_bytes(b) ==
    IF b = <<>> THEN 0
    ELSE (IF Head(b) = Block THEN BlockLen ELSE 1) + len_bytes(Tail(b))

RECURSIVE utf8_ignore(_)
\* bytes.decode('utf-8', errors='ignore') for one- and two-byte sequences:
\* ASCII is kept, a lead byte C2..DF with a continuation byte gives one code
\* point, every other byte of the input is dropped
utf8_ignore(b) ==
    IF b = <<>> THEN <<>>
    ELSE LET h == Head(b) IN
         IF h = Block \/ h < 128 THEN <<h>> \o utf8_ignore(Tail(b))
         ELSE IF h >= 194 /\ h <= 223 /\ Len(b) >= 2
                 /\ b[2] >= 128 /\ b[2] <= 191
              THEN <<(h - 192) * 64 + (b[2] - 128)>>
                       \o utf8_ignore(Tail(Tail(b)))
              ELSE utf8_ignore(Tail(b))

RECURSIVE universal_newlines(_)
\* text-mode reading with newline=None: "\r\n" and "\r" become "\n"
universal_newlines(t) ==
    IF t = <<>> THEN <<>>
    ELSE IF Head(t) = 13
         THEN IF Len(t) >= 2 /\ t[2] = 10
              THEN <<10>> \o universal_newlines(Tail(Tail(t)))
              ELSE <<10>> \o universal_newlines(Tail(t))
         ELSE <<Head(t)>> \o universal_newlines(Tail(t))

\* open(temp_path, encoding='utf-8', errors='ignore').read()
read_text(b) == universal_newlines(utf8_ignore(b))

RECURSIVE join_newline(_)
\* '\n'.join(parts)
join_newline(parts) ==
    IF parts = <<>> THEN <<>>
    ELSE IF Len(parts) = 1 THEN parts[1]
    ELSE parts[1] \o <<10>> \o join_newline(Tail(parts))

---------------------------------------------------------------------------
(* Exceptions *)

NoExc == [type |-> "none", status_code |-> 0, detail |-> <<>>]

HTTPException(status, detail) ==
    [type |-> "HTTPException", status_code |-> status, detail |-> detail]

UnboundLocalError ==
    [type |-> "UnboundLocalError", status_code |-> 0,
     detail |-> <<"cannot access local variable 'temp_path' where it is not associated with a value">>]

status_str(n) ==
    CASE n = 400 -> "400" [] n = 500 -> "500" [] n = 503 -> "503"
      [] OTHER -> "0"

\* str(exception): HTTPException prints as "<status_code>: <detail>"
str_exc(e) ==
    IF e.type = "HTTPException"
    THEN <<status_str(e.status_code), ": ">> \o e.detail
    ELSE e.detail

---------------------------------------------------------------------------
(* Inputs: the uploads a request may carry *)

Filenames ==
    { <<>>,                          \* ""
      <<"a",".","m","d">>,           \* "a.md"
      <<"B",".","T","X","T">>,       \* "B.TXT"
      <<"c",".","e","x","e">>,       \* "c.exe"
      <<"m","d">>,                   \* "md"
      <<".","m","d">> }              \* ".md"

Contents ==
    { <<>>,                                    \* b""
      <<97, 13, 10, 13, 255, 195, 169, 195>>,  \* b"a\r\n\r\xff\xc3\xa9\xc3"
      <<Block, 97>>,                           \* exactly max_file_size_bytes
      <<Block, 97, 97>> }                      \* max_file_size_bytes + 1

\* the uploads: two accepted filenames with contents that are read, and
\* the rejected filenames, whose content is never read
UploadFile ==
    [filename : { <<"a",".","m","d">> },
     content : { <<Block, 97>>, <<Block, 97, 97>> }]
    \cup [filename : { <<"B",".","T","X","T">> },
          content : { <<97, 13, 10, 13, 255, 195, 169, 195>> }]
    \cup [filename : Filenames \ { <<"a",".","m","d">>, <<"B",".","T","X","T">> },
          content : { <<>> }]

Batches == UNION { [1..n -> UploadFile] : n \in 0..MaxFiles }

---------------------------------------------------------------------------
(* FileProcessorService._validate_file *)

_validate_file(file) ==
    IF file.filename = <<>>
    THEN HTTPException(400, <<"Nome do arquivo não pode ser vazio.">>)
    ELSE IF file_extension(file.filename) \notin allowed_extensions
    THEN HTTPException(400, <<"Tipo de arquivo não permitido: ">>
                                \o file_extension(file.filename) \o <<". ">>)
    ELSE NoExc

\* faulty variant: only the first file of the batch is validated
validate_first_only(fs) ==
    IF fs = <<>> THEN NoExc ELSE _validate_file(fs[1])

\* for file in files: self._validate_file(file) -- the exception of the
\* first file, in list order, that fails validation
validate_files(fs) ==
    IF \E k \in 1..Len(fs) : _validate_file(fs[k]) # NoExc
    THEN _validate_file(fs[CHOOSE k \in 1..Len(fs) :
              /\ _validate_file(fs[k]) # NoExc
              /\ \A j \in 1..(k-1) : _validate_file(fs[j]) = NoExc])
    ELSE NoExc

---------------------------------------------------------------------------
(* FileProcessorService._process_single_file *)

NoResult == [kind |-> "none", filename |-> <<>>, text |-> <<>>, exc |-> NoExc]

Returned(filename, text) ==
    [kind |-> "ok", filename |-> filename, text |-> text, exc |-> NoExc]

Raised(e) ==
    [kind |-> "exc", filename |-> <<>>, text |-> <<>>, exc |-> e]

\* a coroutine object that has not run yet: temp says whether its temporary
\* file is on disk, data is the bytes that file holds on disk, buf the bytes
\* of content, text the value of file_content, err whether an exception is
\* propagating out of an async with block
NewTask ==
    [pc |-> "new", temp |-> FALSE, data |-> <<>>, buf |-> <<>>,
     text |-> <<>>, err |-> FALSE, result |-> NoResult, cause |-> "none"]

\* finally (lines 111-119): os.unlink(temp_path) removes the file, or raises
\* OSError, which is logged and swallowed, and the file stays
unlink_temp(t, removed) ==
    IF removed THEN [t EXCEPT !.temp = FALSE, !.data = <<>>] ELSE t

\* an exception raised inside the try block once temp_path is bound:
\* the handler replaces it by HTTPException(500), the finally block unlinks
except_and_finally(t, cause, removed) ==
    unlink_temp([t EXCEPT
        !.pc = "done",
        !.buf = <<>>,
        !.text = <<>>,
        !.err = FALSE,
        !.cause = cause,
        !.result = Raised(HTTPException(500,
                       <<"Erro interno ao processar o arquivo.">>))],
        removed)

\* tempfile.NamedTemporaryFile raised: temp_path was never bound, so the
\* finally block itself raises UnboundLocalError, which replaces the
\* handler's HTTPException(500)
except_and_finally_unbound(t) ==
    [t EXCEPT !.pc = "done", !.buf = <<>>, !.cause = "create",
              !.result = Raised(UnboundLocalError)]

\* the size check of the content read from the upload
size_exceeded(content) == len_bytes(content) > max_file_size_bytes

\* lines 79-87: create the temporary file, then call file.read()
task_start(i, created) ==
    /\ pf_pc = "gather"
    /\ tasks[i].pc = "new"
    /\ \A j \in 1..(i-1) : tasks[j].pc # "new"
    /\ IF created
       THEN /\ tasks' = [tasks EXCEPT ![i] =
                            [@ EXCEPT !.pc = "reading", !.temp = TRUE]]
            /\ ever_temp' = ever_temp \cup {i}
            /\ ever_read' = ever_read \cup {i}
            /\ order' = order
       ELSE /\ tasks' = [tasks EXCEPT ![i] = except_and_finally_unbound(@)]
            /\ order' = Append(order, i)
            /\ UNCHANGED <<ever_temp, ever_read>>
    /\ UNCHANGED <<files, pf_pc, pf_ret, pf_exc>>

\* a step of task i that leaves the state of process_files alone
task_step(i, pc) ==
    /\ pf_pc = "gather"
    /\ tasks[i].pc = pc
    /\ UNCHANGED <<files, pf_pc, pf_ret, pf_exc, ever_read, ever_temp>>

\* the task goes on to its next await
task_goes_on(i, t) ==
    /\ tasks' = [tasks EXCEPT ![i] = t]
    /\ order' = order

\* task i, brought to t, ends in the handler and the finally block
task_fails_with(i, t, cause, removed) ==
    /\ tasks' = [tasks EXCEPT ![i] = except_and_finally(t, cause, removed)]
    /\ order' = Append(order, i)

\* the task ends in the handler and the finally block
task_fails(i, cause, removed) ==
    task_fails_with(i, tasks[i], cause, removed)

\* lines 87-95: file.read() completes, the size check, then the call of
\* aiofiles.open(temp_path, 'wb')
task_read(i, ok, removed) ==
    /\ task_step(i, "reading")
    /\ IF ~ok THEN task_fails(i, "io", removed)
       ELSE IF size_exceeded(files[i].content)
       THEN task_fails(i, "size", removed)
       ELSE task_goes_on(i, [tasks[i] EXCEPT
                !.pc = "open_write", !.buf = files[i].content])

\* lines 95-96: the file is open for writing, then the call of f.write
task_open_write(i, ok, removed) ==
    /\ task_step(i, "open_write")
    /\ IF ok THEN task_goes_on(i, [tasks[i] EXCEPT !.pc = "writing"])
       ELSE task_fails(i, "io", removed)

\* the buffer of the file object opened at line 95 with the default
\* buffering: the block size of the file system
st_blksize == 4096

\* a write that does not fit the buffer of the file object goes to the file
\* at once; a smaller one stays in the buffer until the file is closed
write_through(content) == len_bytes(content) > st_blksize

\* the leading parts of the bytes b, a block counting with every part of it
Prefixes(b) ==
    { SubSeq(b, 1, n) : n \in 0..Len(b) }
    \cup (IF b # <<>> /\ Head(b) = Block THEN { <<Part>> } ELSE {})

\* the bytes p stands for can start with the bytes d stands for: a part of
\* a block is the start of a longer part and of the block, and only the empty
\* bytes and a shorter part are the start of a part
starts_with(p, d) ==
    IF d = <<Part>> THEN p # <<>> /\ Head(p) \in {Part, Block}
    ELSE IF p = <<Part>> THEN d = <<>>
    ELSE Len(p) >= Len(d) /\ SubSeq(p, 1, Len(d)) = d

\* with p of buf in the file, the rest of buf can fit the buffer of the file
\* object
rest_fits(buf, p) ==
    p = <<Part>> \/ len_bytes(buf) - len_bytes(p) <= st_blksize

\* with p of buf in the file, the rest of buf can exceed the buffer
rest_exceeds(buf, p) ==
    p = <<Part>> \/ len_bytes(buf) - len_bytes(p) > st_blksize

\* what a file holding data can hold once f.write(buf) has returned: a write
\* that fits the buffer leaves the file alone; a larger one goes to the file
\* until the rest fits the buffer, all of it unless the file takes less
written(buf, data) ==
    IF write_through(buf)
    THEN { p \in Prefixes(buf) : rest_fits(buf, p) }
    ELSE {data}

\* what a file holding data can hold once f.write(buf) has raised: the
\* bytes written before the failure, with more left than fits the buffer,
\* when the write goes to the file, and what it held when the write goes to
\* the buffer
partial_write(buf, data) ==
    IF write_through(buf)
    THEN { p \in Prefixes(buf) \ {buf} : rest_exceeds(buf, p) }
    ELSE {data}

\* what a file holding data can hold once the close that flushes buf has
\* raised: what it held and the bytes flushed before the failure
partial_flush(buf, data) ==
    { p \in Prefixes(buf) : starts_with(p, data) }

\* line 96: f.write(content) returns or raises; leaving the async with
\* block closes the file in both cases
task_write(i, ok) ==
    /\ task_step(i, "writing")
    /\ IF ok
       THEN \E p \in written(tasks[i].buf, tasks[i].data) :
                task_goes_on(i, [tasks[i] EXCEPT
                    !.pc = "close_write", !.data = p])
       ELSE \E p \in partial_write(tasks[i].buf, tasks[i].data) :
                task_goes_on(i, [tasks[i] EXCEPT
                    !.pc = "close_write", !.err = TRUE, !.data = p])

\* lines 95-99: the file is closed, which flushes the buffered bytes to it;
\* the exception of f.write propagates with the file as the write left it,
\* the exception of the close with what was flushed, or
\* aiofiles.open(temp_path, encoding='utf-8') is called
task_close_write(i, ok, removed) ==
    /\ task_step(i, "close_write")
    /\ IF tasks[i].err THEN task_fails(i, "io", removed)
       ELSE IF ok
       THEN task_goes_on(i, [tasks[i] EXCEPT
                !.pc = "open_read", !.data = tasks[i].buf])
       ELSE \E p \in partial_flush(tasks[i].buf, tasks[i].data) :
                task_fails_with(i, [tasks[i] EXCEPT !.data = p],
                                "io", removed)

\* lines 99-102: the file is open for reading, then the call of f.read
task_open_read(i, ok, removed) ==
    /\ task_step(i, "open_read")
    /\ IF ok THEN task_goes_on(i, [tasks[i] EXCEPT !.pc = "readback"])
       ELSE task_fails(i, "io", removed)

\* line 102: f.read() completes or raises; leaving the async with block
\* closes the file in both cases
task_readback(i, ok) ==
    /\ task_step(i, "readback")
    /\ IF ok
       THEN task_goes_on(i, [tasks[i] EXCEPT
                !.pc = "close_read", !.text = read_text(tasks[i].data)])
       ELSE task_goes_on(i, [tasks[i] EXCEPT
                !.pc = "close_read", !.err = TRUE])

\* lines 99-119: the file is closed; the exception of f.read or of the
\* close propagates, or the task returns; the finally block unlinks
task_close_read(i, ok, removed) ==
    /\ task_step(i, "close_read")
    /\ IF ok /\ ~tasks[i].err
       THEN /\ tasks' = [tasks EXCEPT ![i] =
                   unlink_temp([@ EXCEPT
                       !.pc = "done",
                       !.buf = <<>>,
                       !.text = <<>>,
                       !.result = Returned(files[i].filename,
                                           tasks[i].text)],
                       removed)]
            /\ order' = Append(order, i)
       ELSE task_fails(i, "io", removed)

---------------------------------------------------------------------------
(* FileProcessorService.process_files *)

NoRet == [names |-> <<>>, text |-> <<>>]

\* faulty variant: results in the order in which the tasks finished
gather_as_completed(ts, ord) == [k \in 1..Len(ts) |-> ts[ord[k]].result]

\* asyncio.gather(*tasks, return_exceptions=True): one result per task, in
\* the order of the arguments whatever the order of completion
gather(ts, ord) == [k \in 1..Len(ts) |-> ts[k].result]

\* faulty variant: the loop reports the last failed task
last_exception(results) ==
    IF \E k \in 1..Len(results) : results[k].kind = "exc"
    THEN CHOOSE k \in 1..Len(results) :
            /\ results[k].kind = "exc"
            /\ \A j \in (k+1)..Len(results) : results[j].kind # "exc"
    ELSE 0

\* the index at which the loop of lines 47-57 raises; 0 when it does not
first_exception(results) ==
    IF \E k \in 1..Len(results) : results[k].kind = "exc"
    THEN CHOOSE k \in 1..Len(results) :
            /\ results[k].kind = "exc"
            /\ \A j \in 1..(k-1) : results[j].kind # "exc"
    ELSE 0

\* lines 49-53
error_msg(filename, e) ==
    <<"Erro ao processar o arquivo ">> \o filename \o <<": : ">> \o str_exc(e)

\* lines 33-41: the empty batch, validation, creation of the coroutines
process_files(fs) ==
    /\ pf_pc = "idle"
    /\ files' = fs
    /\ IF fs = <<>>
       THEN /\ pf_pc' = "returned"
            /\ pf_ret' = [names |-> <<>>, text |-> <<>>]
            /\ UNCHANGED <<tasks, pf_exc>>
       ELSE IF validate_files(fs) # NoExc
       THEN /\ pf_pc' = "raised"
            /\ pf_exc' = validate_files(fs)
            /\ UNCHANGED <<tasks, pf_ret>>
       ELSE /\ pf_pc' = "gather"
            /\ tasks' = [k \in 1..Len(fs) |-> NewTask]
            /\ UNCHANGED <<pf_ret, pf_exc>>
    /\ UNCHANGED <<order, ever_read, ever_temp>>

\* lines 42-59: gather has every result; build the return value or raise
process_files_join ==
    /\ pf_pc = "gather"
    /\ \A k \in 1..Len(tasks) : tasks[k].pc = "done"
    /\ LET results == gather(tasks, order)
           i == first_exception(results)
       IN  IF i # 0
           THEN /\ pf_pc' = "raised"
                /\ pf_exc' = HTTPException(400,
                       error_msg(files[i].filename, results[i].exc))
                /\ UNCHANGED pf_ret
           ELSE /\ pf_pc' = "returned"
                /\ pf_ret' =
                     [names |-> [k \in 1..Len(results) |-> results[k].filename],
                      text |-> join_newline(
                          [k \in 1..Len(results) |-> results[k].text])]
                /\ UNCHANGED pf_exc
    /\ UNCHANGED <<files, tasks, order, ever_read, ever_temp>>

---------------------------------------------------------------------------
(* Configuration and construction: AIService.__init__ *)

\* OutputFormat
JSON == 1
TEXT == 2

OutputFormat == {JSON, TEXT}

\* AIService._initialize_client: the client the constructor leaves behind.
\* "None" when the openai import fails (the ImportError is only logged);
\* "ValueError" when the constructor raises (settings missing), in which
\* case no service object exists.
_initialize_client(importable, base_url_set, api_key_set) ==
    IF ~importable THEN "None"
    ELSE IF ~base_url_set \/ ~api_key_set THEN "ValueError"
    ELSE "AsyncOpenAI"

---------------------------------------------------------------------------
(* JSON values and json.loads *)

\* the characters of the upstream message content enumerated by the model
Alphabet == {"{", "}", "\"", ":", "1", " "}

NoVal == [t |-> "none", n |-> 0, s |-> <<>>, m |-> <<>>]
JInt(n) == [t |-> "int", n |-> n, s |-> <<>>, m |-> <<>>]
JStr(s) == [t |-> "str", n |-> 0, s |-> s, m |-> <<>>]
\* a dict: its items, in insertion order, as records [k, v]
JDict(m) == [t |-> "dict", n |-> 0, s |-> <<>>, m |-> m]

Fail == [ok |-> FALSE, val |-> NoVal, end |-> 0]
Ok(v, e) == [ok |-> TRUE, val |-> v, end |-> e]

RECURSIVE lstrip(_)
lstrip(s) == IF s # <<>> /\ Head(s) = " " THEN lstrip(Tail(s)) ELSE s

RECURSIVE rstrip(_)
rstrip(s) ==
    IF s # <<>> /\ s[Len(s)] = " " THEN rstrip(SubSeq(s, 1, Len(s) - 1)) ELSE s

\* str.strip()
strip(s) == rstrip(lstrip(s))

RECURSIVE skip_ws(_, _)
\* json.decoder.WHITESPACE.match(s, i).end(): first index >= i off a blank
skip_ws(s, i) ==
    IF i <= Len(s) /\ s[i] = " " THEN skip_ws(s, i + 1) ELSE i

RECURSIVE find_quote(_, _)
\* index of the first '"' at or after i; 0 when there is none
find_quote(s, i) ==
    IF i > Len(s) THEN 0
    ELSE IF s[i] = "\"" THEN i ELSE find_quote(s, i + 1)

\* json.decoder.scanstring, called with s[i] = '"'
parse_string(s, i) ==
    LET j == find_quote(s, i + 1)
    IN  IF j = 0 THEN Fail ELSE Ok(JStr(SubSeq(s, i + 1, j - 1)), j + 1)

RECURSIVE digits_end(_, _)
\* end of the run of digits that starts at i
digits_end(s, i) ==
    IF i <= Len(s) /\ s[i] = "1" THEN digits_end(s, i + 1) ELSE i

RECURSIVE int_of_ones(_)
\* int() of a string of k digits "1"
int_of_ones(k) == IF k = 0 THEN 0 ELSE 10 * int_of_ones(k - 1) + 1

\* json.scanner NUMBER_RE at s[i] = "1"
parse_number(s, i) ==
    LET e == digits_end(s, i) IN Ok(JInt(int_of_ones(e - i)), e)

RECURSIVE scan_once(_, _)
\* json.scanner.py_make_scanner._scan_once, with JSONObject inlined: an
\* object is "{}" or holds one "key": value pair (the alphabet has no comma)
scan_once(s, i) ==
    IF i > Len(s) THEN Fail
    ELSE IF s[i] = "\"" THEN parse_string(s, i)
    ELSE IF s[i] = "1" THEN parse_number(s, i)
    ELSE IF s[i] = "{" THEN
        LET a == skip_ws(s, i + 1) IN
        IF a > Len(s) THEN Fail
        ELSE IF s[a] = "}" THEN Ok(JDict(<<>>), a + 1)
        ELSE IF s[a] # "\"" THEN Fail
        ELSE LET key == parse_string(s, a) IN
             IF ~key.ok THEN Fail
             ELSE LET c == skip_ws(s, key.end) IN
                  IF c > Len(s) \/ s[c] # ":" THEN Fail
                  ELSE LET v == scan_once(s, skip_ws(s, c + 1)) IN
                       IF ~v.ok THEN Fail
                       ELSE LET z == skip_ws(s, v.end) IN
                            IF z > Len(s) \/ s[z] # "}" THEN Fail
                            ELSE Ok(JDict(<<[k |-> key.val.s, v |-> v.val]>>),
                                    z + 1)
    ELSE Fail

\* json.loads(s): one value, blanks around it, nothing else ("Extra data");
\* ok = FALSE stands for JSONDecodeError
json_loads(s) ==
    LET r == scan_once(s, skip_ws(s, 1)) IN
    IF ~r.ok THEN Fail
    ELSE IF skip_ws(s, r.end) # Len(s) + 1 THEN Fail
    ELSE r

---------------------------------------------------------------------------
(* The brace pattern of _parse_json_response *)

RECURSIVE match_braces(_, _, _)
\* the rest of a brace group after its "{": scan from j to the "}" that
\* closes it, with groups nested at most d levels deeper; the index of the
\* closing "}" or 0 when the pattern does not match
match_braces(s, j, d) ==
    IF j > Len(s) THEN 0
    ELSE IF s[j] = "}" THEN j
    ELSE IF s[j] = "{" THEN
        IF d = 0 THEN 0
        ELSE LET e == match_braces(s, j + 1, d - 1) IN
             IF e = 0 THEN 0 ELSE match_braces(s, e + 1, d)
    ELSE match_braces(s, j + 1, d)

\* the pattern anchored at p
match_at(s, p) == IF s[p] = "{" THEN match_braces(s, p + 1, 2) ELSE 0

\* re.search(json_pattern, content, re.DOTALL): the leftmost match
re_search(s) ==
    IF \E p \in 1..Len(s) : match_at(s, p) # 0
    THEN LET p == CHOOSE q \in 1..Len(s) :
                    match_at(s, q) # 0 /\ \A r \in 1..(q-1) : match_at(s, r) = 0
         IN  [found |-> TRUE, group |-> SubSeq(s, p, match_at(s, p))]
    ELSE [found |-> FALSE, group |-> <<>>]

---------------------------------------------------------------------------
(* AIService._parse_json_response *)

Value(v) == [raised |-> FALSE, val |-> v]
Raises == [raised |-> TRUE, val |-> NoVal]

\* faulty variant: the JSONDecodeError propagates instead of the fallback
fallback_raises(content) == Raises

\* lines 142-147: the structured fallback
fallback(content) ==
    Value(JDict(<<
        [k |-> <<"response">>, v |-> JStr(strip(content))],
        [k |-> <<"note">>,
         v |-> JStr(<<"Não foi possível extrair JSON válido da resposta.">>)]
    >>))

_parse_json_response(content) ==
    LET strict == json_loads(strip(content)) IN
    IF strict.ok THEN Value(strict.val)
    ELSE LET json_match == re_search(content) IN
         IF json_match.found /\ json_loads(json_match.group).ok
         THEN Value(json_loads(json_match.group).val)
         ELSE fallback(content)

---------------------------------------------------------------------------
(* AIService.generate_completion *)

\* AIService._build_full_prompt
_build_full_prompt(prompt, file_content, output_format) ==
    prompt
    \o (IF file_content # <<>>
        THEN <<"\n\nConteúdo do arquivo:\n">> \o file_content ELSE <<>>)
    \o (IF output_format = JSON
        THEN <<"\n\nIMPORTANTE: Responda apenas com um JSON válido,\n            sem texto adicional antes ou depois do JSON.">>
        ELSE <<>>)

Prompts == { <<"p">> }
FileContents == { <<>>, <<"f">> }
Args == [prompt : Prompts, file_content : FileContents,
         output_format : OutputFormat]
NoArgs == [prompt |-> <<>>, file_content |-> <<>>, output_format |-> TEXT]

RECURSIVE Strings(_)
\* the strings over Alphabet of length n
Strings(n) ==
    IF n = 0 THEN { <<>> }
    ELSE { Append(s, c) : s \in Strings(n - 1), c \in Alphabet }

\* longer replies: objects with a member, text around an object
SampleContents ==
    { <<"{", "\"", "\"", ":", "1", "}">>,
      <<" ", "{", "\"", "1", "\"", ":", "{", "}", "}", " ">>,
      <<"1", " ", "{", "\"", "\"", ":", "1", "1", "}", ":">>,
      <<"{", "{", "{", "{", "}", "}", "}", "}">>,
      <<" ", "{", "\"", ":", "1", "}", " ">> }

MessageContents ==
    UNION { Strings(n) : n \in 0..MaxContentLen } \cup SampleContents

\* what awaiting chat.completions.create can produce
ReplyKinds ==
    {"raise", "none", "no_choices", "no_message", "null_content", "content"}

NoReply == [kind |-> "pending", content |-> <<>>]

Replies ==
    { [kind |-> k, content |-> <<>>] : k \in ReplyKinds \ {"content"} }
    \cup { [kind |-> "content", content |-> c] : c \in MessageContents }

\* faulty variant: the client check is skipped
client_check_skipped(c) == FALSE

\* line 59: if not self.client
client_missing(c) == c = "None"

\* faulty variant: a failed upstream call is tried once more
retry_once(n) ==
    IF n < 2
    THEN [pc |-> "awaiting", requests |-> n + 1, exc |-> NoExc]
    ELSE [pc |-> "raised", requests |-> n,
          exc |-> HTTPException(500, <<"Erro ao processar solicitação de IA.">>)]

\* lines 109-113: any other exception of the upstream call ends the call
on_exception(n) ==
    [pc |-> "raised", requests |-> n,
     exc |-> HTTPException(500, <<"Erro ao processar solicitação de IA.">>)]

\* lines 72-100: the checks of the response; NoExc when it has content
response_error(reply) ==
    CASE reply.kind = "none" ->
            HTTPException(500, <<"Resposta inválida da API de IA.">>)
      [] reply.kind = "no_choices" ->
            HTTPException(500, <<"Resposta da API não contém choices.">>)
      [] reply.kind = "no_message" ->
            HTTPException(500, <<"Resposta da API não contém message.">>)
      [] reply.kind = "null_content" ->
            HTTPException(500, <<"Conteúdo da resposta é vazio.">>)
      [] OTHER -> NoExc

\* lines 59-70: the client check, the prompt, the upstream request
generate_completion(prompt, file_content, output_format) ==
    /\ ai_pc \in {"idle", "returned", "raised"}
    /\ ai_args' = [prompt |-> prompt, file_content |-> file_content,
                   output_format |-> output_format]
    /\ ai_reply' = NoReply
    /\ ai_ret' = NoVal
    /\ IF client_missing(client)
       THEN /\ ai_pc' = "raised"
            /\ ai_exc' = HTTPException(503, <<"Serviço de IA não disponível.">>)
            /\ ai_requests' = 0
            /\ ai_sent' = <<>>
       ELSE /\ ai_pc' = "awaiting"
            /\ ai_exc' = NoExc
            /\ ai_requests' = 1
            /\ ai_sent' = _build_full_prompt(prompt, file_content, output_format)
    /\ UNCHANGED client

\* lines 65-113: the awaited upstream call raises or gives a response
upstream_reply(reply) ==
    /\ ai_pc = "awaiting"
    /\ ai_reply' = reply
    /\ IF reply.kind = "raise"
       THEN /\ ai_pc' = on_exception(ai_requests).pc
            /\ ai_requests' = on_exception(ai_requests).requests
            /\ ai_exc' = on_exception(ai_requests).exc
            /\ ai_ret' = NoVal
       ELSE IF response_error(reply) # NoExc
       THEN /\ ai_pc' = "raised"
            /\ ai_exc' = response_error(reply)
            /\ UNCHANGED <<ai_requests, ai_ret>>
       ELSE IF ai_args.output_format = JSON
       THEN LET r == _parse_json_response(reply.content) IN
            IF r.raised
            THEN /\ ai_pc' = on_exception(ai_requests).pc
                 /\ ai_requests' = on_exception(ai_requests).requests
                 /\ ai_exc' = on_exception(ai_requests).exc
                 /\ ai_ret' = NoVal
            ELSE /\ ai_pc' = "returned"
                 /\ ai_ret' = r.val
                 /\ UNCHANGED <<ai_requests, ai_exc>>
       ELSE /\ ai_pc' = "returned"
            /\ ai_ret' = JStr(reply.content)
            /\ UNCHANGED <<ai_requests, ai_exc>>
    /\ UNCHANGED <<client, ai_args, ai_sent>>

---------------------------------------------------------------------------
(* PromptRequest: src/src/models/schemas.py *)

min_length == 1
max_length == 2000

\* one symbol of a prompt that stands for a run of max_length characters "x"
LongRun == "x * max_length"

RECURSIVE len_str(_)
\* len(prompt)
len_str(p) ==
    IF p = <<>> THEN 0
    ELSE (IF Head(p) = LongRun THEN max_length ELSE 1) + len_str(Tail(p))

\* PromptRequest(prompt=...): the Field length constraints, then
\* validate_prompt; TRUE when no ValidationError is raised
prompt_valid(prompt) ==
    /\ len_str(prompt) >= min_length
    /\ len_str(prompt) <= max_length
    /\ strip(prompt) # <<>>

\* validate_prompt: the value the model keeps
validate_prompt(prompt) == strip(prompt)

---------------------------------------------------------------------------
(* process_prompt: src/src/routes/process.py *)

NoForm == [prompt |-> <<>>, output_format |-> TEXT]

NoResponse ==
    [success |-> FALSE, data |-> NoVal, files_processed |-> <<>>,
     message |-> <<>>]

\* PromptResponse(...) of lines 85-91, without the processing time
PromptResponse(result, processed_files) ==
    [success |-> TRUE, data |-> result, files_processed |-> processed_files,
     message |-> <<"Processamento concluído com sucesso">>]

\* data: str | dict -- the values PromptResponse accepts
data_valid(result) == result.t \in {"str", "dict"}

\* lines 96-99: any exception that is no HTTPException
unexpected(what) ==
    HTTPException(500,
        <<"Erro inesperado durante o processamento: ", what>>)

\* faulty variant: a failure of process_files is swallowed and the
\* completion is requested with what there is
after_files_ignoring_failure(pc) ==
    IF pc = "gather" THEN "files" ELSE "completion"

\* line 72: where process_prompt stands once process_files has run as far as
\* it can: it awaits the tasks, its exception propagates, or it returned
after_files(pc) ==
    CASE pc = "gather" -> "files"
      [] pc = "raised" -> "raised"
      [] OTHER -> "completion"

\* lines 72-79 after process_files moved: propagate its HTTPException, keep
\* awaiting, or call generate_completion with the validated prompt, the
\* combined text and the format
continue_after_files(data) ==
    LET step == after_files(pf_pc') IN
    IF step = "files"
    THEN /\ rt_pc' = "files"
         /\ UNCHANGED <<rt_resp, rt_exc, ai_vars>>
    ELSE IF step = "raised"
    THEN /\ rt_pc' = "raised"
         /\ rt_exc' = pf_exc'
         /\ UNCHANGED <<rt_resp, ai_vars>>
    ELSE /\ generate_completion(data.prompt, pf_ret'.text, data.output_format)
         /\ IF ai_pc' = "raised"
            THEN rt_pc' = "raised" /\ rt_exc' = ai_exc'
            ELSE rt_pc' = "completion" /\ rt_exc' = rt_exc
         /\ UNCHANGED rt_resp

\* lines 64-79: a request arrives; the prompt is validated, process_files
\* is called and runs up to its first suspension
process_prompt(prompt, output_format, fs) ==
    /\ rt_pc = "idle"
    /\ rt_args' = [prompt |-> prompt, output_format |-> output_format]
    /\ IF ~prompt_valid(prompt)
       THEN /\ rt_pc' = "raised"
            /\ rt_exc' = unexpected("ValidationError: PromptRequest.prompt")
            /\ UNCHANGED <<rt_data, rt_resp, fp_vars, ai_vars>>
       ELSE /\ rt_data' = [prompt |-> validate_prompt(prompt),
                           output_format |-> output_format]
            /\ process_files(fs)
            /\ continue_after_files(rt_data')

\* lines 72-79: gather has every result, process_files returns or raises
\* and process_prompt goes on in the same step
process_prompt_files_done ==
    /\ rt_pc = "files"
    /\ process_files_join
    /\ continue_after_files(rt_data)
    /\ UNCHANGED <<rt_args, rt_data>>

\* lines 77-99: the upstream call of generate_completion ends; the
\* response is built or the exception propagated
process_prompt_completion_done(reply) ==
    /\ rt_pc = "completion"
    /\ upstream_reply(reply)
    /\ IF ai_pc' = "raised"
       THEN /\ rt_pc' = "raised"
            /\ rt_exc' = ai_exc'
            /\ UNCHANGED rt_resp
       ELSE IF ~data_valid(ai_ret')
       THEN /\ rt_pc' = "raised"
            /\ rt_exc' = unexpected("ValidationError: PromptResponse.data")
            /\ UNCHANGED rt_resp
       ELSE /\ rt_pc' = "returned"
            /\ rt_resp' = PromptResponse(ai_ret', pf_ret.names)
            /\ UNCHANGED rt_exc
    /\ UNCHANGED <<rt_args, rt_data, fp_vars>>

\* the requests of the model
FormPrompts ==
    { <<>>,                          \* ""
      <<" ">>,                       \* " "
      <<" ", "p", " ">>,             \* " p "
      <<LongRun>>,                   \* max_length characters
      <<LongRun, "p">> }             \* max_length + 1 characters

FormUploads ==
    [filename : { <<"a",".","m","d">>, <<"c",".","e","x","e">> },
     content : { <<97, 13, 10, 13, 98>>, <<Block, 97, 97>> }]

FormBatches == UNION { [1..n -> FormUploads] : n \in 0..MaxFiles }

\* the upstream outcomes of the model of a request
FormReplies ==
    { [kind |-> k, content |-> <<>>] : k \in ReplyKinds \ {"content"} }
    \cup { [kind |-> "content", content |-> c] :
              c \in { <<"1">>, <<"{", "}">>, <<":", " ">> } }

---------------------------------------------------------------------------
(* Specifications *)

InitFP ==
    /\ files = <<>>
    /\ pf_pc = "idle"
    /\ tasks = <<>>
    /\ order = <<>>
    /\ pf_ret = NoRet
    /\ pf_exc = NoExc
    /\ ever_read = {}
    /\ ever_temp = {}

\* the state after AIService() was constructed (the constructor returned)
InitAI ==
    /\ \E importable, base_url_set, api_key_set \in BOOLEAN :
          client = _initialize_client(importable, base_url_set, api_key_set)
    /\ client # "ValueError"
    /\ ai_pc = "idle"
    /\ ai_args = NoArgs
    /\ ai_sent = <<>>
    /\ ai_requests = 0
    /\ ai_reply = NoReply
    /\ ai_ret = NoVal
    /\ ai_exc = NoExc

\* no request is being handled
InitRoute ==
    /\ rt_pc = "idle"
    /\ rt_args = NoForm
    /\ rt_data = NoForm
    /\ rt_resp = NoResponse
    /\ rt_exc = NoExc

Init == InitFP /\ InitAI /\ InitRoute

CallProcessFiles ==
    /\ pf_pc = "idle"
    /\ \E fs \in Batches : process_files(fs)
    /\ UNCHANGED <<ai_vars, rt_vars>>

TaskStart ==
    /\ \E i \in 1..Len(tasks) : \E created \in BOOLEAN : task_start(i, created)
    /\ UNCHANGED <<ai_vars, rt_vars>>

TaskRead ==
    /\ \E i \in 1..Len(tasks) : \E ok, removed \in BOOLEAN :
          task_read(i, ok, removed)
    /\ UNCHANGED <<ai_vars, rt_vars>>

TaskOpenWrite ==
    /\ \E i \in 1..Len(tasks) :
          \/ task_open_write(i, TRUE, TRUE)
          \/ \E removed \in BOOLEAN : task_open_write(i, FALSE, removed)
    /\ UNCHANGED <<ai_vars, rt_vars>>

TaskWrite ==
    /\ \E i \in 1..Len(tasks) : \E ok \in BOOLEAN : task_write(i, ok)
    /\ UNCHANGED <<ai_vars, rt_vars>>

TaskCloseWrite ==
    /\ \E i \in 1..Len(tasks) :
          \/ task_close_write(i, TRUE, TRUE)
          \/ \E removed \in BOOLEAN : task_close_write(i, FALSE, removed)
    /\ UNCHANGED <<ai_vars, rt_vars>>

TaskOpenRead ==
    /\ \E i \in 1..Len(tasks) :
          \/ task_open_read(i, TRUE, TRUE)
          \/ \E removed \in BOOLEAN : task_open_read(i, FALSE, removed)
    /\ UNCHANGED <<ai_vars, rt_vars>>

TaskReadBack ==
    /\ \E i \in 1..Len(tasks) : \E ok \in BOOLEAN : task_readback(i, ok)
    /\ UNCHANGED <<ai_vars, rt_vars>>

TaskCloseRead ==
    /\ \E i \in 1..Len(tasks) : \E ok, removed \in BOOLEAN :
          task_close_read(i, ok, removed)
    /\ UNCHANGED <<ai_vars, rt_vars>>

Join == process_files_join /\ UNCHANGED <<ai_vars, rt_vars>>

CallGenerateCompletion ==
    /\ \E a \in Args :
          generate_completion(a.prompt, a.file_content, a.output_format)
    /\ UNCHANGED <<fp_vars, rt_vars>>

UpstreamReply ==
    /\ ai_pc = "awaiting"
    /\ \E reply \in Replies : upstream_reply(reply)
    /\ UNCHANGED <<fp_vars, rt_vars>>

NextFP ==
    \/ CallProcessFiles
    \/ TaskStart
    \/ TaskRead
    \/ TaskOpenWrite
    \/ TaskWrite
    \/ TaskCloseWrite
    \/ TaskOpenRead
    \/ TaskReadBack
    \/ TaskCloseRead
    \/ Join

NextAI ==
    \/ CallGenerateCompletion
    \/ UpstreamReply

ProcessPrompt ==
    /\ rt_pc = "idle"
    /\ \E prompt \in FormPrompts, output_format \in OutputFormat,
          fs \in FormBatches : process_prompt(prompt, output_format, fs)

FilesDone ==
    /\ rt_pc = "files"
    /\ process_prompt_files_done

CompletionDone ==
    /\ rt_pc = "completion"
    /\ \E reply \in FormReplies : process_prompt_completion_done(reply)

NextRoute ==
    \/ ProcessPrompt
    \/ TaskStart
    \/ TaskRead
    \/ TaskOpenWrite
    \/ TaskWrite
    \/ TaskCloseWrite
    \/ TaskOpenRead
    \/ TaskReadBack
    \/ TaskCloseRead
    \/ FilesDone
    \/ CompletionDone

\* one request handled by process_prompt
SpecRoute == Init /\ [][NextRoute]_vars

\* one process_files call of the file processor
SpecFP == Init /\ [][NextFP]_vars

\* the calls of generate_completion on one AIService
SpecAI == Init /\ [][NextAI]_vars

---------------------------------------------------------------------------
(* Properties of process_files *)

\* the file fails _validate_file: no name, or an extension not allowed
Invalid(file) ==
    \/ file.filename = <<>>
    \/ file_extension(file.filename) \notin allowed_extensions

Failed(k) == tasks[k].pc = "done" /\ tasks[k].result.kind = "exc"

\* the lowest index of a failed task
LowestFailed ==
    CHOOSE k \in 1..Len(tasks) :
        Failed(k) /\ \A j \in 1..(k-1) : ~Failed(j)

\* process_files raised after the tasks ran (not from validation)
RaisedAfterGather == pf_pc = "raised" /\ tasks # <<>>

\* every file passed validation, every task returned and process_files
\* returned the result of a non-empty batch
AllSucceeded == pf_pc = "returned" /\ files # <<>>

\* the code points of the text t
chars(t) == { t[n] : n \in 1..Len(t) }

\* C1 as stated: when every file is valid and every task succeeds,
\* process_files returns the filenames in input order and the UTF-8 decoded
\* contents, joined by one newline, in input order.
C1_DecodedContents ==
    AllSucceeded =>
        /\ Len(pf_ret.names) = Len(files)
        /\ \A k \in 1..Len(files) : pf_ret.names[k] = files[k].filename
        /\ pf_ret.text = join_newline(
               [k \in 1..Len(files) |-> utf8_ignore(files[k].content)])

\* C1: when every file is valid and every task succeeds, process_files
\* returns the filenames in input order and, joined by one newline in input
\* order, the UTF-8 decoded contents in which every CR LF pair and every
\* lone CR has become LF, whatever the completion order; the combined text
\* holds no CR, and where no content holds a CR it is the join of the
\* decoded contents as they are.
C1_OrderPreserved ==
    AllSucceeded =>
        /\ Len(pf_ret.names) = Len(files)
        /\ \A k \in 1..Len(files) : pf_ret.names[k] = files[k].filename
        /\ pf_ret.text = join_newline(
               [k \in 1..Len(files) |->
                    universal_newlines(utf8_ignore(files[k].content))])
        /\ 13 \notin chars(pf_ret.text)
        /\ (\A k \in 1..Len(files) : 13 \notin chars(files[k].content)) =>
               pf_ret.text = join_newline(
                   [k \in 1..Len(files) |-> utf8_ignore(files[k].content)])

\* two files with different names, one of them with CR in its content,
\* were returned after the second task finished first
C1_Witness ==
    /\ AllSucceeded
    /\ Len(files) >= 2
    /\ files[1].filename # files[2].filename
    /\ read_text(files[1].content) # read_text(files[2].content)
    /\ \E k \in 1..Len(files) : 13 \in chars(files[k].content)
    /\ order[1] = 2

\* C2: a batch holding a file with an empty name or a disallowed extension,
\* at any position, fails in validation: no file is ever read, no task and
\* no temporary file is ever created, and nothing is returned.
C2_ValidationBeforeAnyRead ==
    (\E k \in 1..Len(files) : Invalid(files[k])) =>
        /\ pf_pc = "raised"
        /\ pf_exc.type = "HTTPException" /\ pf_exc.status_code = 400
        /\ tasks = <<>>
        /\ ever_read = {}
        /\ ever_temp = {}
        /\ pf_ret = NoRet

C2_Witness ==
    /\ pf_pc = "raised"
    /\ Len(files) >= 2
    /\ ~Invalid(files[1])
    /\ Invalid(files[Len(files)])

\* C3: when process_files has returned or raised, every task has finished
\* and no temporary file a task created still exists.
C3_NoTempFileLeft ==
    pf_pc \in {"returned", "raised"} =>
        \A k \in 1..Len(tasks) : tasks[k].pc = "done" /\ ~tasks[k].temp

\* C4: a file over the size limit makes process_files fail with the very
\* exception of the size check, HTTPException(400, size exceeds limit).
C4_SizeErrorNotRewrapped ==
    (RaisedAfterGather /\ tasks[LowestFailed].cause = "size") =>
        pf_exc = HTTPException(400,
                     <<"Tamanho do arquivo excede o limite permitido.">>)

\* C5: an I/O error while reading or writing a validated file makes
\* process_files fail with a server-side error (status 5xx), unlike the
\* client-side errors (4xx) of validation.
C5_IOErrorIsServerSide ==
    (RaisedAfterGather /\ tasks[LowestFailed].cause = "io") =>
        pf_exc.status_code >= 500

\* C9: when tasks fail, process_files raises only after every task has
\* finished, and the error it raises is the one it builds at lines 49-53
\* from the failed file of lowest index, whatever the completion order: an
\* HTTPException(400) whose detail holds that file's name and str() of that
\* task's exception, not that exception itself; nothing is returned.
C9_LowestIndexError ==
    RaisedAfterGather =>
        /\ \A k \in 1..Len(tasks) : tasks[k].pc = "done"
        /\ pf_exc = HTTPException(400,
               error_msg(files[LowestFailed].filename,
                         tasks[LowestFailed].result.exc))
        /\ pf_ret = NoRet

C9_Witness ==
    /\ RaisedAfterGather
    /\ Len(tasks) >= 2
    /\ Failed(1) /\ Failed(2)
    /\ order[1] = 2
    /\ files[1].filename # files[2].filename
    /\ tasks[1].result.exc # tasks[2].result.exc

---------------------------------------------------------------------------
(* Properties of generate_completion *)

\* the upstream call of the current call gave a message with content
GotContent == ai_reply.kind = "content"

\* neither the strict parse of the content nor the parse of the first
\* brace-delimited match yields JSON
NoJson(content) ==
    /\ ~json_loads(strip(content)).ok
    /\ \/ ~re_search(content).found
       \/ ~json_loads(re_search(content).group).ok

\* the result is a dict with exactly the keys 'response' and 'note'
IsFallbackShape(v) ==
    /\ v.t = "dict"
    /\ Len(v.m) = 2
    /\ v.m[1].k = <<"response">>
    /\ v.m[2].k = <<"note">>

\* C6: with no client established at construction, every call raises
\* HTTPException(503) and no upstream request is ever issued.
C6_NoClientNoRequest ==
    client = "None" =>
        /\ ai_requests = 0
        /\ ai_sent = <<>>
        /\ ai_reply = NoReply
        /\ ai_pc \in {"idle", "raised"}
        /\ ai_pc = "raised" =>
              ai_exc = HTTPException(503, <<"Serviço de IA não disponível.">>)

C6_Witness ==
    /\ client = "None"
    /\ ai_pc = "raised"
    /\ ai_args.output_format = JSON
    /\ ai_args.file_content # <<>>

C8_VariantByFormat ==
    ai_pc = "returned" =>
        /\ ai_args.output_format = TEXT => ai_ret = JStr(ai_reply.content)
        /\ ai_args.output_format = JSON => ai_ret.t = "dict"

\* C10: a call issues at most one upstream request; when that request
\* raises or gives no usable content, the call ends with HTTPException(500)
\* after exactly one request.
C10_SingleRequestNoRetry ==
    /\ ai_requests <= 1
    /\ ai_reply.kind \in (ReplyKinds \ {"content"}) =>
          /\ ai_pc = "raised"
          /\ ai_exc.type = "HTTPException"
          /\ ai_exc.status_code = 500
          /\ ai_requests = 1
          /\ ai_ret = NoVal

C10_Witness ==
    /\ ai_reply.kind = "raise"
    /\ ai_pc = "raised"
    /\ ai_requests = 1

---------------------------------------------------------------------------
(* process_prompt *)

\* the prompt of the request passed the validation of PromptRequest
PromptOk == prompt_valid(rt_args.prompt)

\* generate_completion has been called
CompletionCalled == ai_pc # "idle"

\* C11: within one request the steps run in the order prompt validation,
\* process_files, generate_completion: process_files is entered only with a
\* valid prompt; generate_completion is called, and an upstream request
\* issued, only after the prompt passed validation and process_files
\* returned, and with the validated prompt, the combined text and the
\* format; a failed validation or a failed process_files ends the request
\* with an error and generate_completion is never called.
C11_StepsInOrder ==
    /\ pf_pc # "idle" => PromptOk
    /\ (CompletionCalled \/ ai_requests > 0) =>
          /\ PromptOk
          /\ pf_pc = "returned"
          /\ ai_args = [prompt |-> validate_prompt(rt_args.prompt),
                        file_content |-> pf_ret.text,
                        output_format |-> rt_args.output_format]
    /\ (rt_pc # "idle" /\ ~PromptOk) =>
          /\ rt_pc = "raised"
          /\ rt_exc.status_code = 500
          /\ pf_pc = "idle"
          /\ ever_read = {}
          /\ ~CompletionCalled
          /\ ai_requests = 0
    /\ pf_pc = "raised" =>
          /\ rt_pc = "raised"
          /\ rt_exc = pf_exc
          /\ ~CompletionCalled
          /\ ai_requests = 0

\* a request with uploads went through the three steps: the files were
\* processed, one upstream request was issued and the response returned
C11_Witness ==
    /\ rt_pc = "returned"
    /\ Len(files) >= 1
    /\ pf_pc = "returned"
    /\ ai_requests = 1
    /\ rt_resp.success

=============================================================================
